---------------------------- MODULE Spec2Model ----------------------------
(***************************************************************************)
(* A model of the login handshake of the banking server                   *)
(* (server/src/client/client.service.ts) and of the protection library    *)
(* it uses (securelib: secureHash, createMIC, micMatch, protect,           *)
(* unprotect, protectAsymmetric, unprotectAsymmetric).                    *)
(*                                                                         *)
(* Strings are modelled by the way they were built, as tagged tuples:     *)
(*   <<"lit", s>>          a literal string                                *)
(*   <<"json", v>>         the text JSON.stringify(v)                      *)
(*   <<"sha256", t>>       the base64 SHA-256 digest of the string t       *)
(*   <<"rsa", pub, t>>     the base64 RSA-OAEP encryption of t under pub   *)
(*   <<"aes", k, iv, t>>   the base64 AES-256-CBC encryption of t          *)
(*   <<"pem", pub>>        the base64 of the SPKI PEM export of pub        *)
(* and JavaScript objects as <<"obj", fields>>, fields being the sequence *)
(* of <<name, value>> pairs in insertion order.  Two strings are equal    *)
(* iff they were built the same way: the hash is collision free, the      *)
(* ciphers and JSON.stringify are injective.                               *)
(***************************************************************************)
EXTENDS Integers, Sequences, FiniteSets, TLC

VARIABLES
    booted,        \* the constructor of ClientService has run
    privateKey,    \* ClientService.privateKey
    files,         \* the files written with writeFileSync
    logged,        \* the messages passed to Logger.log
    nonceCache,    \* CACHE_MANAGER: nonce -> time at which the entry expires
    sessions,      \* the documents of sessionModel
    nextId,        \* number of session documents (and session keys) created
    clock,         \* DateTime.now(), in minutes
    pc,            \* per login invocation: the await it is suspended at
    req,           \* per login invocation: the envelope it was called with
    pending,       \* per login invocation: the session document it built, and when
    result,        \* per login invocation: what it returned or threw
    checkedAt,     \* per login invocation: when the cache served its nonce check
    sweepPc,       \* checkSessions: the await it is suspended at
    sweepSeen,     \* checkSessions: the documents find() returned
    sweepDel,      \* checkSessions: sessionsToDelete
    sweepStart,    \* checkSessions: when the running sweep was invoked
    issued,        \* the documents the store has written: when built, by which login, written in a later minute
    codecPc,       \* codec scenario: position
    codecIn,       \* codec scenario: the inputs
    codecEnv,      \* codec scenario: the envelope in transit
    codecOut       \* codec scenario: what the open returned or threw

vars == <<booted, privateKey, files, logged, nonceCache, sessions, nextId,
          clock, pc, req, pending, result, checkedAt, sweepPc, sweepSeen,
          sweepDel, sweepStart, issued, codecPc, codecIn, codecEnv,
          codecOut>>

serviceVars == <<booted, privateKey, files, logged, nonceCache, sessions,
                 nextId, clock, pc, req, pending, result, checkedAt, sweepPc,
                 sweepSeen, sweepDel, sweepStart, issued>>

codecVars == <<codecPc, codecIn, codecEnv, codecOut>>

-----------------------------------------------------------------------------
(* Bounds *)

MaxLogins == 2     \* login invocations
MaxWait == 2       \* minutes the clock runs while logins are followed
LastLogin == 1     \* last minute at which a login is called while sessions are followed

-----------------------------------------------------------------------------
(* Values *)

Lit(s) == <<"lit", s>>
Obj(fields) == <<"obj", fields>>
Undefined == <<"undefined">>
\* a thrown exception: its class and its message
Throw(class, msg) == <<"throw", class, msg>>
IsThrow(v) == v[1] = "throw"

\* the property of a JavaScript object, undefined when absent
RECURSIVE Lookup(_, _)
Lookup(fields, name) ==
    IF fields = <<>> THEN Undefined
    ELSE IF Head(fields)[1] = name THEN Head(fields)[2]
    ELSE Lookup(Tail(fields), name)

Prop(v, name) == IF v[1] = "obj" THEN Lookup(v[2], name) ELSE Undefined

\* JSON.stringify leaves out the properties whose value is undefined
RECURSIVE Serializable(_), SerializableFields(_)
Serializable(v) ==
    IF v[1] = "obj" THEN SerializableFields(v[2]) ELSE v # Undefined

SerializableFields(fields) ==
    IF fields = <<>> THEN TRUE
    ELSE Serializable(Head(fields)[2]) /\ SerializableFields(Tail(fields))

RECURSIVE Defined(_), DefinedFields(_)
Defined(v) == IF v[1] = "obj" THEN Obj(DefinedFields(v[2])) ELSE v

DefinedFields(fields) ==
    IF fields = <<>> THEN <<>>
    ELSE IF Head(fields)[2] = Undefined THEN DefinedFields(Tail(fields))
    ELSE << <<Head(fields)[1], Defined(Head(fields)[2])>> >>
             \o DefinedFields(Tail(fields))

JSONstringify(v) == IF v = Undefined THEN Undefined ELSE <<"json", Defined(v)>>

JSONparse(t) ==
    IF t[1] = "json" THEN t[2] ELSE Throw("SyntaxError", "Unexpected token")

-----------------------------------------------------------------------------
(* Keys *)

ServerPub == "server_pub"
ServerPriv == "server_priv"
PubKeys == {"server_pub", "client_pub"}
PrivKeys == {"server_priv", "client_priv"}

\* the private half of a public key of generateKeyPairSync
PrivOf(pub) == IF pub = "server_pub" THEN "server_priv" ELSE "client_priv"

\* crypto.createSecretKey(crypto.randomBytes(bytes)): the n-th key drawn
\* differs from all others
SecretKey(bytes, n) == <<"symkey", bytes, n>>

\* sessionKey.export().toString("base64")
KeyB64(k) == <<"b64key", k>>

\* byte length of a key exported by KeyObject.export()
KeyBytes(k) == IF k[1] = "symkey" THEN k[2] ELSE 0

\* the KeyObject of a base64 PEM string: crypto.createPublicKey throws on
\* anything that is not an encoded key
createPublicKey(str) ==
    IF str[1] = "pem" THEN <<"KeyObject", str[2]>>
    ELSE Throw("TypeError", "Invalid key object")

-----------------------------------------------------------------------------
(* Sizes, in bytes, of the strings the asymmetric cipher is given *)

ModulusLength == 2048

\* RSA-OAEP with SHA-1 takes at most k - 2*20 - 2 bytes, k the modulus bytes
OaepMaxBytes == (ModulusLength \div 8) - 42

LitLen(s) ==
    CASE s = "alice12345" -> 10
      [] s = "bob12345" -> 8
      [] s = "letmein" -> 7
      [] s = "statement" -> 300
      [] OTHER -> 24

NameLen(name) ==
    CASE name = "data" -> 4
      [] name = "nonce" -> 5
      [] name = "clientId" -> 8
      [] name = "password" -> 8
      [] name = "sessionKey" -> 10
      [] OTHER -> 9

RECURSIVE JsonLen(_), FieldsLen(_)
\* length of JSON.stringify(v); a serialized text nested in a string is
\* counted without the escapes of its quotes
JsonLen(v) ==
    CASE v[1] = "obj" ->
            2 + FieldsLen(v[2]) + (IF Len(v[2]) > 1 THEN Len(v[2]) - 1 ELSE 0)
      [] v[1] = "lit" -> LitLen(v[2]) + 2
      [] v[1] = "json" -> JsonLen(v[2]) + 2
      [] v[1] = "rsa" -> 344 + 2
      [] v[1] = "pem" -> 600 + 2
      [] OTHER -> 44 + 2

FieldsLen(fields) ==
    IF fields = <<>> THEN 0
    ELSE NameLen(Head(fields)[1]) + 3 + JsonLen(Head(fields)[2])
             + FieldsLen(Tail(fields))

-----------------------------------------------------------------------------
(* securelib *)

secureHash(data) == <<"sha256", JSONstringify(data)>>

\* the tag taken over the ciphertext alone
createMIC_CiphertextOnly(cipheredData) ==
    secureHash(JSONstringify(Prop(cipheredData, "data")))

createMIC(cipheredData) == secureHash(JSONstringify(cipheredData))

micMatch(mic, cipheredData) == createMIC(cipheredData) = mic

\* nonce stands for crypto.randomBytes(16)
cipherData(data, secret, nonce) ==
    IF data = Undefined
    THEN Throw("TypeError", "The data argument must be of type string")
    ELSE Obj(<< <<"data", <<"aes", secret, nonce, JSONstringify(data)>> >>,
                <<"nonce", nonce>> >>)

decipherData(cipheredData, secret) ==
    LET nonce == Prop(cipheredData, "nonce")
        data == Prop(cipheredData, "data")
    IN  IF data[1] = "aes" /\ data[2] = secret /\ data[3] = nonce
        THEN JSONparse(data[4])
        ELSE Throw("Error", "bad decrypt")

encryptAsymmetricData(data, publicKey) ==
    IF data = Undefined
    THEN Throw("TypeError", "The first argument must be of type string")
    ELSE IF JsonLen(data) > OaepMaxBytes
    THEN Throw("Error", "data too large for key size")
    ELSE <<"rsa", publicKey, JSONstringify(data)>>

decryptAsymmetricData(cipheredData, key) ==
    LET data == Prop(cipheredData, "data")
    IN  IF data[1] = "rsa" /\ PrivOf(data[2]) = key
        THEN JSONparse(data[3])
        ELSE Throw("Error", "oaep decoding error")

generateSymmetricKey(n) == SecretKey(32, n)

SymKeys == {generateSymmetricKey(1), generateSymmetricKey(2)}

protect(data, secret, nonce) ==
    LET cipheredData == cipherData(data, secret, nonce)
    IN  IF IsThrow(cipheredData) THEN cipheredData
        ELSE Obj(<< <<"mic", createMIC(cipheredData)>>,
                    <<"nonce", Prop(cipheredData, "nonce")>>,
                    <<"data", Prop(cipheredData, "data")>> >>)

protectAsymmetric(data, secret) ==
    LET cipheredData == encryptAsymmetricData(data, secret)
    IN  IF IsThrow(cipheredData) THEN cipheredData
        ELSE Obj(<< <<"mic", secureHash(JSONstringify(cipheredData))>>,
                    <<"data", cipheredData>> >>)

\* the tag recomputed over the properties in another order
check_NonceFirst(data) ==
    micMatch(Prop(data, "mic"),
             Obj(<< <<"nonce", Prop(data, "nonce")>>,
                    <<"data", Prop(data, "data")>> >>))

check(data) ==
    micMatch(Prop(data, "mic"),
             Obj(<< <<"data", Prop(data, "data")>>,
                    <<"nonce", Prop(data, "nonce")>> >>))

\* the envelope deciphered without its tag being checked
unprotect_Unchecked(protectedData, key) ==
    decipherData(protectedData, key)

unprotect(protectedData, key) ==
    IF ~check(protectedData)
    THEN Throw("Error", "Failed to decipher: compromised data!")
    ELSE decipherData(protectedData, key)

unprotectAsymmetric(protectedData, key) ==
    IF ~check(protectedData)
    THEN Throw("Error", "Failed to decipher: compromised data!")
    ELSE decryptAsymmetricData(protectedData, key)

-----------------------------------------------------------------------------
(* The service: its collaborators *)

SessionTTL == 10   \* minutes

NonceTTL == 2      \* minutes a recorded nonce stays in the cache

\* minutes the clock runs while sessions are followed: every session expires
MaxTime == LastLogin + SessionTTL + 1

Procs == 1..MaxLogins

Nonces == {Lit("n1"), Lit("n2")}

\* DateTime.toISO and DateTime.fromISO
toISO(t) == <<"iso", t>>
fromISO(str) == IF str[1] = "iso" THEN str[2] ELSE -1

\* the client collection, as seeded
Clients ==
    { [id |-> Lit("alice_id"), name |-> "Alice",
       password |-> secureHash(Lit("alice12345"))],
      [id |-> Lit("bob_id"), name |-> "Bob",
       password |-> secureHash(Lit("bob12345"))] }

\* clientModel.findById: the documents found, none standing for null
findById(clientId) == {c \in Clients : c.id = clientId}

\* the cache holds an entry for the nonce that has not run out
NonceLive(cache, nonce, now) == cache[nonce] > now

\* checkNonce: one atomic test-and-insert; TRUE when the nonce was fresh
recordIfFresh(cache, nonce, now) == ~NonceLive(cache, nonce, now)

NonceRecorded(cache, nonce, now) ==
    IF NonceLive(cache, nonce, now) THEN cache
    ELSE [cache EXCEPT ![nonce] = now + NonceTTL]

\* validateSync(plainToInstance(LoginDto, loginData)): the offending fields
validateSync(loginData) ==
    {f \in {"clientId", "password"} : Prop(loginData, f)[1] # "lit"}

\* protectAsymmetricServer: the asymmetric seal, tag over the ciphertext
protectAsymmetricServer(data, publicKey) ==
    LET cipheredData == encryptAsymmetricData(data, publicKey)
    IN  IF IsThrow(cipheredData) THEN cipheredData
        ELSE Obj(<< <<"mic", secureHash(cipheredData)>>,
                    <<"data", cipheredData>> >>)

-----------------------------------------------------------------------------
(* The login envelopes a caller may submit *)

ClientPem == <<"pem", "client_pub">>

Credentials(id, password) ==
    Obj(<< <<"clientId", Lit(id)>>, <<"password", Lit(password)>> >>)

\* the tag login accepts: over the nonce, the decrypted payload and the key
LoginMic(nonce, payload, publicKey) ==
    createMIC(Obj(<< <<"nonce", nonce>>, <<"data", payload>>,
                     <<"publicKey", publicKey>> >>))

Envelope(mic, nonce, data, publicKey) ==
    Obj(<< <<"mic", mic>>, <<"nonce", nonce>>, <<"data", data>>,
           <<"publicKey", publicKey>> >>)

\* what a client following the protocol sends
Sealed(nonce, payload, publicKey) ==
    Envelope(LoginMic(nonce, payload, publicKey), nonce,
             encryptAsymmetricData(payload, ServerPub), publicKey)

GoodLogin(nonce) == Sealed(nonce, Credentials("alice_id", "alice12345"), ClientPem)
WrongPassword == Sealed(Lit("n1"), Credentials("alice_id", "letmein"), ClientPem)
UnknownClient == Sealed(Lit("n1"), Credentials("mallory_id", "letmein"), ClientPem)
Malformed ==
    Sealed(Lit("n1"), Obj(<< <<"clientId", Lit("alice_id")>> >>), ClientPem)
Undecryptable ==
    Envelope(LoginMic(Lit("n1"), Credentials("alice_id", "alice12345"), ClientPem),
             Lit("n1"),
             encryptAsymmetricData(Credentials("alice_id", "alice12345"),
                                   "client_pub"),
             ClientPem)
BadMic ==
    Envelope(Lit("AAAA"), Lit("n1"),
             encryptAsymmetricData(Credentials("alice_id", "alice12345"),
                                   ServerPub),
             ClientPem)
BadPublicKey ==
    Sealed(Lit("n1"), Credentials("alice_id", "alice12345"), Lit("not a key"))

\* the tag over the fields as transmitted: nonce, ciphertext and key
WireMic(e) ==
    createMIC(Obj(<< <<"nonce", Prop(e, "nonce")>>,
                     <<"data", Prop(e, "data")>>,
                     <<"publicKey", Prop(e, "publicKey")>> >>))

\* the envelope of GoodLogin with its tag taken over the transmitted fields
WireTagged ==
    Envelope(WireMic(GoodLogin(Lit("n1"))), Lit("n1"),
             Prop(GoodLogin(Lit("n1")), "data"), ClientPem)

\* the mic and ciphertext of GoodLogin under another nonce
OtherNonce ==
    Envelope(Prop(GoodLogin(Lit("n1")), "mic"), Lit("n2"),
             Prop(GoodLogin(Lit("n1")), "data"), ClientPem)

\* the mic and ciphertext of GoodLogin with another public key claimed
OtherKey ==
    Envelope(Prop(GoodLogin(Lit("n1")), "mic"), Lit("n1"),
             Prop(GoodLogin(Lit("n1")), "data"), <<"pem", "server_pub">>)

\* an unknown client under a tag that does not match
BadMicUnknownClient ==
    Envelope(Lit("AAAA"), Lit("n1"),
             encryptAsymmetricData(Credentials("mallory_id", "letmein"),
                                   ServerPub),
             ClientPem)

Requests ==
    {GoodLogin(n) : n \in Nonces}
        \cup {WrongPassword, UnknownClient, Malformed, Undecryptable, BadMic,
              BadPublicKey, BadMicUnknownClient}

\* an accepted envelope and the envelopes made from its mic and ciphertext
TagRequests == {GoodLogin(Lit("n1")), WireTagged, OtherNonce, OtherKey}

SessionRequests == {GoodLogin(n) : n \in Nonces}

-----------------------------------------------------------------------------
(* The service: construction *)

None == <<"none">>

CodecIdle ==
    /\ codecPc = "off"
    /\ codecIn = None
    /\ codecEnv = None
    /\ codecOut = None

Init ==
    /\ booted = FALSE
    /\ privateKey = "unset"
    /\ files = {}
    /\ logged = {}
    /\ nonceCache = [n \in Nonces |-> 0]
    /\ sessions = {}
    /\ nextId = 0
    /\ clock = 0
    /\ pc = [p \in Procs |-> "idle"]
    /\ req = [p \in Procs |-> None]
    /\ pending = [p \in Procs |-> {}]
    /\ result = [p \in Procs |-> None]
    /\ checkedAt = [p \in Procs |-> -1]
    /\ sweepPc = "idle"
    /\ sweepSeen = {}
    /\ sweepDel = {}
    /\ sweepStart = 0
    /\ issued = {}
    /\ CodecIdle

\* publicKey.export({type: "spki"}) and privateKey.export({type: "pkcs8"})
ExportPem(type, key) == <<"pem", type, key>>

\* new ClientService(...): the key pair is generated and exported
Constructor ==
    /\ ~booted
    /\ booted' = TRUE
    /\ privateKey' = ServerPriv
    /\ logged' = logged \cup {"Generating server keypair...",
                              "Exporting keys...", "Keys exported to: KEYS_PATH"}
    /\ files' = files \cup
          { [path |-> "KEYS_PATH/server_public.pem",
             content |-> ExportPem("spki", ServerPub)],
            [path |-> "KEYS_PATH/server_private.pem",
             content |-> ExportPem("pkcs8", privateKey')] }
    /\ UNCHANGED <<nonceCache, sessions, nextId, clock, pc, req, pending,
                   result, checkedAt, sweepPc, sweepSeen, sweepDel, sweepStart,
                   issued>>
    /\ UNCHANGED codecVars

\* a minute passes
Tick(horizon) ==
    /\ clock < horizon
    /\ clock' = clock + 1
    /\ UNCHANGED <<booted, privateKey, files, logged, nonceCache, sessions,
                   nextId, pc, req, pending, result, checkedAt, sweepPc,
                   sweepSeen, sweepDel, sweepStart, issued>>
    /\ UNCHANGED codecVars

-----------------------------------------------------------------------------
(* The service: login *)

Finish(p, outcome) ==
    /\ pc' = [pc EXCEPT ![p] = "done"]
    /\ result' = [result EXCEPT ![p] = outcome]

\* login is called with an envelope and suspends at await checkNonce;
\* invocations are numbered in the order they arrive
LoginCall(p, e) ==
    /\ booted
    /\ pc[p] = "idle"
    /\ \A q \in Procs : q < p => pc[q] # "idle"
    /\ req' = [req EXCEPT ![p] = e]
    /\ pc' = [pc EXCEPT ![p] = "checkNonce"]
    /\ UNCHANGED <<booted, privateKey, files, logged, nonceCache, sessions,
                   nextId, clock, pending, result, checkedAt, sweepPc,
                   sweepSeen, sweepDel, sweepStart, issued>>
    /\ UNCHANGED codecVars

\* loginData of an envelope, or the exception of decryptAsymmetricData
LoginData(e) == decryptAsymmetricData(e, privateKey)

\* the mic is not compared
LoginFault_TagUnchecked(e) ==
    LET loginData == LoginData(e)
    IN  IF IsThrow(loginData)
        THEN Throw("BadRequestException", "Data decryption fault")
        ELSE IF validateSync(loginData) # {}
        THEN Throw("BadRequestException", "validation")
        ELSE None

\* lines 108-130: decryption, integrity check and validation
LoginFault(e) ==
    LET loginData == LoginData(e)
        micPayload == Obj(<< <<"nonce", Prop(e, "nonce")>>,
                             <<"data", loginData>>,
                             <<"publicKey", Prop(e, "publicKey")>> >>)
    IN  IF IsThrow(loginData)
        THEN Throw("BadRequestException", "Data decryption fault")
        ELSE IF ~micMatch(Prop(e, "mic"), micPayload)
        THEN Throw("BadRequestException", "Data integrity fault")
        ELSE IF validateSync(loginData) # {}
        THEN Throw("BadRequestException", "validation")
        ELSE None

\* new this.sessionModel({...}): the n-th document, with the n-th key drawn
NewSession(n, client, publicKey, now) ==
    [id |-> <<"oid", n>>,
     sessionKey |-> KeyB64(generateSymmetricKey(n)),
     client |-> client.id,
     publicKey |-> publicKey,
     expire |-> toISO(now + SessionTTL)]

\* lines 134-139: the credential check against the document findById found
CredentialFault(e) ==
    LET loginDto == LoginData(e)
        found == findById(Prop(loginDto, "clientId"))
    IN  IF found = {}
        THEN Throw("NotFoundException", "Client not found")
        ELSE IF \E client \in found :
                    client.password # secureHash(Prop(loginDto, "password"))
        THEN Throw("UnauthorizedException", "Invalid credentials")
        ELSE None

\* lines 143-152: the session document is built and login suspends at
\* await session.save()
Issue(p, e) ==
    /\ nextId' = nextId + 1
    /\ pending' = [pending EXCEPT ![p] =
           {[session |-> NewSession(nextId + 1,
                                    CHOOSE c \in findById(
                                        Prop(LoginData(e), "clientId")) : TRUE,
                                    Prop(e, "publicKey"), clock),
             now |-> clock]}]
    /\ pc' = [pc EXCEPT ![p] = "save"]
    /\ UNCHANGED result

\* the credentials looked up before the tag and the payload are checked
AfterNonce_CredentialsFirst(p, e) ==
    IF ~IsThrow(LoginData(e)) /\ CredentialFault(e) # None
    THEN /\ Finish(p, CredentialFault(e))
         /\ UNCHANGED <<nextId, pending>>
    ELSE IF LoginFault(e) # None
    THEN /\ Finish(p, LoginFault(e))
         /\ UNCHANGED <<nextId, pending>>
    ELSE Issue(p, e)

\* what login does once it is past the nonce check, up to await
\* session.save(); the client collection is never written, so that findById
\* is taken to answer at once
AfterNonce(p, e) ==
    IF LoginFault(e) # None
    THEN /\ Finish(p, LoginFault(e))
         /\ UNCHANGED <<nextId, pending>>
    ELSE IF CredentialFault(e) # None
    THEN /\ Finish(p, CredentialFault(e))
         /\ UNCHANGED <<nextId, pending>>
    ELSE Issue(p, e)

\* checkNonce called without await: its rejection does not stop login
LoginNonce_NoAwait(p) ==
    /\ pc[p] = "checkNonce"
    /\ nonceCache' = NonceRecorded(nonceCache, Prop(req[p], "nonce"), clock)
    /\ checkedAt' = [checkedAt EXCEPT ![p] = clock]
    /\ AfterNonce(p, req[p])
    /\ UNCHANGED <<booted, privateKey, files, logged, sessions, clock, req,
                   sweepPc, sweepSeen, sweepDel, sweepStart, issued>>
    /\ UNCHANGED codecVars

\* a login that fails after the nonce check takes the nonce out of the cache
LoginNonce_ForgetNonce(p) ==
    /\ pc[p] = "checkNonce"
    /\ nonceCache' =
          IF recordIfFresh(nonceCache, Prop(req[p], "nonce"), clock)
                /\ (LoginFault(req[p]) # None \/ CredentialFault(req[p]) # None)
          THEN [nonceCache EXCEPT ![Prop(req[p], "nonce")] = 0]
          ELSE NonceRecorded(nonceCache, Prop(req[p], "nonce"), clock)
    /\ checkedAt' = [checkedAt EXCEPT ![p] = clock]
    /\ IF ~recordIfFresh(nonceCache, Prop(req[p], "nonce"), clock)
       THEN /\ Finish(p, Throw("ReplayError", "Nonce already used"))
            /\ UNCHANGED <<nextId, pending>>
       ELSE AfterNonce(p, req[p])
    /\ UNCHANGED <<booted, privateKey, files, logged, sessions, clock, req,
                   sweepPc, sweepSeen, sweepDel, sweepStart, issued>>
    /\ UNCHANGED codecVars

\* the cache serves checkNonce: a stale nonce rejects the awaited promise;
\* otherwise login resumes and runs on to await session.save()
LoginNonce(p) ==
    /\ pc[p] = "checkNonce"
    /\ nonceCache' = NonceRecorded(nonceCache, Prop(req[p], "nonce"), clock)
    /\ checkedAt' = [checkedAt EXCEPT ![p] = clock]
    /\ IF ~recordIfFresh(nonceCache, Prop(req[p], "nonce"), clock)
       THEN /\ Finish(p, Throw("ReplayError", "Nonce already used"))
            /\ UNCHANGED <<nextId, pending>>
       ELSE AfterNonce(p, req[p])
    /\ UNCHANGED <<booted, privateKey, files, logged, sessions, clock, req,
                   sweepPc, sweepSeen, sweepDel, sweepStart, issued>>
    /\ UNCHANGED codecVars

\* login from its call to await session.save(), with the cache answering
\* at once
Login(p, e) ==
    /\ booted
    /\ pc[p] = "idle"
    /\ \A q \in Procs : q < p => pc[q] # "idle"
    /\ req' = [req EXCEPT ![p] = e]
    /\ nonceCache' = NonceRecorded(nonceCache, Prop(e, "nonce"), clock)
    /\ checkedAt' = [checkedAt EXCEPT ![p] = clock]
    /\ IF ~recordIfFresh(nonceCache, Prop(e, "nonce"), clock)
       THEN /\ Finish(p, Throw("ReplayError", "Nonce already used"))
            /\ UNCHANGED <<nextId, pending>>
       ELSE AfterNonce(p, e)
    /\ UNCHANGED <<booted, privateKey, files, logged, sessions, clock,
                   sweepPc, sweepSeen, sweepDel, sweepStart, issued>>
    /\ UNCHANGED codecVars

\* a login called in the first LastLogin minutes
EarlyLogin(p, e) == clock <= LastLogin /\ Login(p, e)

\* the response carries a key drawn anew instead of the stored one
Response_KeyDrawnAgain(session, publicKey) ==
    LET responseData == Obj(<< <<"sessionId", session.id>>,
                               <<"sessionKey", KeyB64(generateSymmetricKey(0))>> >>)
        key == createPublicKey(publicKey)
    IN  IF IsThrow(key) THEN key
        ELSE LET protectedData == protectAsymmetricServer(responseData, key[2])
             IN  IF IsThrow(protectedData) THEN protectedData
                 ELSE Obj(<< <<"mic", Prop(protectedData, "mic")>>,
                             <<"data", Prop(protectedData, "data")>> >>)

\* lines 154-171: the response of login for a saved session
Response(session, publicKey) ==
    LET responseData == Obj(<< <<"sessionId", session.id>>,
                               <<"sessionKey", session.sessionKey>> >>)
        key == createPublicKey(publicKey)
    IN  IF IsThrow(key) THEN key
        ELSE LET protectedData == protectAsymmetricServer(responseData, key[2])
             IN  IF IsThrow(protectedData) THEN protectedData
                 ELSE Obj(<< <<"mic", Prop(protectedData, "mic")>>,
                             <<"data", Prop(protectedData, "data")>> >>)

\* the save renews the expiry of the sessions the client already has
LoginSave_Renew(p) ==
    /\ pc[p] = "save"
    /\ LET saved == CHOOSE s \in pending[p] : TRUE
       IN  /\ sessions' =
                 {IF s.client = saved.session.client
                  THEN [s EXCEPT !.expire = toISO(clock + SessionTTL)]
                  ELSE s : s \in sessions} \cup {saved.session}
           /\ issued' = issued \cup {[session |-> saved.session,
                                      now |-> saved.now,
                                      by |-> p,
                                      late |-> clock > saved.now]}
           /\ Finish(p, Response(saved.session, Prop(req[p], "publicKey")))
    /\ pending' = [pending EXCEPT ![p] = {}]
    /\ UNCHANGED <<booted, privateKey, files, logged, nonceCache, nextId,
                   clock, req, checkedAt, sweepPc, sweepSeen, sweepDel,
                   sweepStart>>
    /\ UNCHANGED codecVars

\* the save replaces the sessions the client already has
LoginSave_Replace(p) ==
    /\ pc[p] = "save"
    /\ LET saved == CHOOSE s \in pending[p] : TRUE
       IN  /\ sessions' =
                 {s \in sessions : s.client # saved.session.client}
                     \cup {saved.session}
           /\ issued' = issued \cup {[session |-> saved.session,
                                      now |-> saved.now,
                                      by |-> p,
                                      late |-> clock > saved.now]}
           /\ Finish(p, Response(saved.session, Prop(req[p], "publicKey")))
    /\ pending' = [pending EXCEPT ![p] = {}]
    /\ UNCHANGED <<booted, privateKey, files, logged, nonceCache, nextId,
                   clock, req, checkedAt, sweepPc, sweepSeen, sweepDel,
                   sweepStart>>
    /\ UNCHANGED codecVars

\* the store writes the document; login resumes, seals the response and
\* returns
LoginSave(p) ==
    /\ pc[p] = "save"
    /\ LET saved == CHOOSE s \in pending[p] : TRUE
       IN  /\ sessions' = sessions \cup {saved.session}
           /\ issued' = issued \cup {[session |-> saved.session,
                                      now |-> saved.now,
                                      by |-> p,
                                      late |-> clock > saved.now]}
           /\ Finish(p, Response(saved.session, Prop(req[p], "publicKey")))
    /\ pending' = [pending EXCEPT ![p] = {}]
    /\ UNCHANGED <<booted, privateKey, files, logged, nonceCache, nextId,
                   clock, req, checkedAt, sweepPc, sweepSeen, sweepDel,
                   sweepStart>>
    /\ UNCHANGED codecVars

-----------------------------------------------------------------------------
(* The service: the prune sweep, run by cron *)

\* checkSessions is invoked and the store answers find()
SweepFind ==
    /\ booted
    /\ sweepPc = "idle"
    /\ sweepPc' = "filter"
    /\ sweepSeen' = sessions
    /\ sweepStart' = clock
    /\ logged' = logged \cup {"[Sessions Management]: Pruning expired sessions..."}
    /\ UNCHANGED <<booted, privateKey, files, nonceCache, sessions, nextId,
                   clock, pc, req, pending, result, checkedAt, sweepDel,
                   issued>>
    /\ UNCHANGED codecVars

\* the comparison of the filter turned around
Expired_Inverted(docs, now) ==
    {s.id : s \in {d \in docs : fromISO(d.expire) > now}}

\* the documents expiring at now taken for expired
Expired_Inclusive(docs, now) ==
    {s.id : s \in {d \in docs : fromISO(d.expire) <= now}}

\* the ids of the documents whose expire lies before now
Expired(docs, now) == {s.id : s \in {d \in docs : fromISO(d.expire) < now}}

\* checkSessions resumes, filters and suspends at await deleteMany
SweepFilter ==
    /\ sweepPc = "filter"
    /\ sweepDel' = Expired(sweepSeen, clock)
    /\ sweepPc' = "deleteMany"
    /\ UNCHANGED <<booted, privateKey, files, logged, nonceCache, sessions,
                   nextId, clock, pc, req, pending, result, checkedAt,
                   sweepSeen, sweepStart, issued>>
    /\ UNCHANGED codecVars

\* the store deletes the documents whose _id is in the list
SweepDelete ==
    /\ sweepPc = "deleteMany"
    /\ sessions' = {s \in sessions : s.id \notin sweepDel}
    /\ sweepPc' = "idle"
    /\ sweepSeen' = {}
    /\ sweepDel' = {}
    /\ sweepStart' = 0
    /\ UNCHANGED <<booted, privateKey, files, logged, nonceCache, nextId,
                   clock, pc, req, pending, result, checkedAt, issued>>
    /\ UNCHANGED codecVars

\* The handshake, followed for MaxWait minutes: no session expires within
\* them, so that a sweep would delete nothing
Next ==
    \/ Constructor
    \/ Tick(MaxWait)
    \/ \E p \in Procs, e \in Requests : LoginCall(p, e)
    \/ \E p \in Procs : LoginNonce(p)
    \/ \E p \in Procs : LoginSave(p)

Spec == Init /\ [][Next]_vars

\* The sessions, followed for MaxTime minutes, with the sweep running; a
\* login is followed from await session.save() on
NextSessions ==
    \/ Constructor
    \/ Tick(MaxTime)
    \/ \E p \in Procs, e \in SessionRequests : EarlyLogin(p, e)
    \/ \E p \in Procs : LoginSave(p)
    \/ SweepFind
    \/ SweepFilter
    \/ SweepDelete

SpecSessions == Init /\ [][NextSessions]_vars

\* The handshake again, called with the envelopes of TagRequests
NextTags ==
    \/ Constructor
    \/ Tick(MaxWait)
    \/ \E p \in Procs, e \in TagRequests : LoginCall(p, e)
    \/ \E p \in Procs : LoginNonce(p)
    \/ \E p \in Procs : LoginSave(p)

SpecTags == Init /\ [][NextTags]_vars

-----------------------------------------------------------------------------
(* The protection library on its own: a payload is sealed, the envelope may
   be altered in transit, and it is opened *)

Payloads ==
    { Lit("alice12345"),
      Lit("statement"),
      Credentials("alice_id", "alice12345"),
      Obj(<< <<"sessionId", <<"oid", 1>> >>,
             <<"sessionKey", KeyB64(generateSymmetricKey(1))>> >>),
      Obj(<< <<"clientId", Lit("alice_id")>>, <<"password", Undefined>> >>) }

\* what an envelope field may be replaced with in transit
Forged ==
    Nonces \cup {Lit("AAAA"),
                 <<"aes", generateSymmetricKey(1), Lit("n1"), JSONstringify(Lit("letmein"))>>,
                 <<"rsa", "client_pub", JSONstringify(Lit("letmein"))>>}

InitCodec ==
    /\ booted = FALSE
    /\ privateKey = "unset"
    /\ files = {}
    /\ logged = {}
    /\ nonceCache = [n \in Nonces |-> 0]
    /\ sessions = {}
    /\ nextId = 0
    /\ clock = 0
    /\ pc = [p \in Procs |-> "idle"]
    /\ req = [p \in Procs |-> None]
    /\ pending = [p \in Procs |-> {}]
    /\ result = [p \in Procs |-> None]
    /\ checkedAt = [p \in Procs |-> -1]
    /\ sweepPc = "idle"
    /\ sweepSeen = {}
    /\ sweepDel = {}
    /\ sweepStart = 0
    /\ issued = {}
    /\ codecPc = "input"
    /\ codecIn \in [d : Payloads, secret : SymKeys, publicKey : PubKeys]
    /\ codecEnv = None
    /\ codecOut = None

\* the envelope of a seal, or the exception the seal threw
Sealing(kind, sealed) ==
    IF IsThrow(sealed)
    THEN /\ codecPc' = "thrown"
         /\ codecEnv' = None
         /\ codecOut' = [op |-> kind, key |-> None, out |-> sealed]
    ELSE /\ codecPc' = "sealed"
         /\ codecEnv' = [kind |-> kind, altered |-> "", env |-> sealed]
         /\ UNCHANGED codecOut

CodecProtect(nonce) ==
    /\ codecPc = "input"
    /\ Sealing("protect", protect(codecIn.d, codecIn.secret, nonce))
    /\ UNCHANGED codecIn
    /\ UNCHANGED serviceVars

CodecProtectAsymmetric ==
    /\ codecPc = "input"
    /\ Sealing("protectAsymmetric", protectAsymmetric(codecIn.d, codecIn.publicKey))
    /\ UNCHANGED codecIn
    /\ UNCHANGED serviceVars

\* the envelope with one property replaced
RECURSIVE Replaced(_, _, _)
Replaced(fields, name, value) ==
    IF fields = <<>> THEN <<>>
    ELSE << IF Head(fields)[1] = name THEN <<name, value>> ELSE Head(fields) >>
             \o Replaced(Tail(fields), name, value)

\* in transit the ciphertext or the nonce is replaced by another value; the
\* mic is kept
CodecTamper(name, value) ==
    /\ codecPc = "sealed"
    /\ codecEnv.altered = ""
    /\ name \in {"data", "nonce"}
    /\ Prop(codecEnv.env, name) # Undefined
    /\ Prop(codecEnv.env, name) # value
    /\ codecEnv' = [codecEnv EXCEPT !.altered = name,
                        !.env = Obj(Replaced(codecEnv.env[2], name, value))]
    /\ UNCHANGED <<codecPc, codecIn, codecOut>>
    /\ UNCHANGED serviceVars

CodecUnprotect(key) ==
    /\ codecPc = "sealed"
    /\ codecPc' = "opened"
    /\ codecOut' = [op |-> "unprotect", key |-> key,
                    out |-> unprotect(codecEnv.env, key)]
    /\ UNCHANGED <<codecIn, codecEnv>>
    /\ UNCHANGED serviceVars

CodecUnprotectAsymmetric(key) ==
    /\ codecPc = "sealed"
    /\ codecPc' = "opened"
    /\ codecOut' = [op |-> "unprotectAsymmetric", key |-> key,
                    out |-> unprotectAsymmetric(codecEnv.env, key)]
    /\ UNCHANGED <<codecIn, codecEnv>>
    /\ UNCHANGED serviceVars

NextCodec ==
    \/ \E nonce \in Nonces : CodecProtect(nonce)
    \/ CodecProtectAsymmetric
    \/ \E name \in {"data", "nonce"}, value \in Forged : CodecTamper(name, value)
    \/ \E key \in SymKeys : CodecUnprotect(key)
    \/ \E key \in PrivKeys : CodecUnprotectAsymmetric(key)

SpecCodec == InitCodec /\ [][NextCodec]_vars

-----------------------------------------------------------------------------
(* Properties of the handshake *)

Replay == Throw("ReplayError", "Nonce already used")

\* the cache has served the nonce check of invocation p
Checked(p) == checkedAt[p] >= 0

\* invocation p went past the nonce check
PassedNonce(p) == Checked(p) /\ result[p] # Replay

SameNonce(p, q) == Prop(req[p], "nonce") = Prop(req[q], "nonce")

\* the nonce check of q was served within the TTL window that p's opened
InWindowOf(p, q) ==
    /\ checkedAt[p] <= checkedAt[q]
    /\ checkedAt[q] < checkedAt[p] + NonceTTL

C2_ReplayRejected ==
    \A p, q \in Procs :
        (p # q /\ req[p] = req[q] /\ PassedNonce(p) /\ Checked(q)
              /\ InWindowOf(p, q))
            => result[q] = Replay

\* the first submission failed its credential check, the second is a replay
C2_Witness ==
    /\ MaxLogins >= 2
    /\ req[1] = WrongPassword
    /\ req[2] = WrongPassword
    /\ result[1] = Throw("UnauthorizedException", "Invalid credentials")
    /\ checkedAt[2] > checkedAt[1]
    /\ result[2] = Replay

\* C3: a login that ends in a failure has stored no session.
C3_NoSessionOnFailure ==
    \A p \in Procs :
        (pc[p] = "done" /\ IsThrow(result[p]))
            => \A i \in issued : i.by # p

\* invocation p failed its credential check
FailedCredentials(p) ==
    /\ pc[p] = "done"
    /\ PassedNonce(p)
    /\ LoginFault(req[p]) = None
    /\ CredentialFault(req[p]) # None

\* C4: an unknown clientId and a wrong password fail with the same error.
C4_SingleAuthenticationError ==
    \A p, q \in Procs :
        (FailedCredentials(p) /\ FailedCredentials(q))
            => result[p] = result[q]

\* the private key occurs in what was written
Discloses(written) == written[3] = ServerPriv

\* C5: the private key is never written to a file (the messages logged are
\* fixed texts and carry no key).
C5_PrivateKeyInMemoryOnly ==
    \A f \in files : ~Discloses(f.content)

\* the successful logins
Succeeded(p) == pc[p] = "done" /\ ~IsThrow(result[p])

\* the private key of the claimed public key of an envelope
ClaimedPrivateKey(e) == PrivOf(createPublicKey(Prop(e, "publicKey"))[2])

\* C10: a login with a valid envelope, a fresh nonce and correct credentials
\* succeeds; a login that succeeds has stored exactly one session and returns
\* {mic, data}, data decrypting under the private key of the claimed public
\* key to the id of that session and the 32-byte key stored in it.
C10_SuccessResponse ==
    \A p \in Procs :
        /\ (pc[p] = "done" /\ PassedNonce(p)
                /\ req[p] \in {GoodLogin(n) : n \in Nonces})
              => Succeeded(p)
        /\ Succeeded(p) =>
              /\ Cardinality({i \in issued : i.by = p}) = 1
              /\ Len(result[p][2]) = 2
              /\ Prop(result[p], "mic") # Undefined
              /\ \A i \in {j \in issued : j.by = p} :
                    /\ i.session \in sessions
                    /\ i.session.id # Lit("")
                    /\ i.session.sessionKey[1] = "b64key"
                    /\ KeyBytes(i.session.sessionKey[2]) = 32
                    /\ decryptAsymmetricData(result[p], ClaimedPrivateKey(req[p]))
                          = Obj(<< <<"sessionId", i.session.id>>,
                                   <<"sessionKey", i.session.sessionKey>> >>)

C10_Witness == \E p \in Procs : Succeeded(p) /\ req[p] = GoodLogin(Lit("n1"))

IntegrityFault == Throw("BadRequestException", "Data integrity fault")

\* invocation p got as far as the integrity check: it went past the nonce
\* check and the ciphertext decrypted
ReachedIntegrity(p) ==
    /\ pc[p] # "idle"
    /\ PassedNonce(p)
    /\ ~IsThrow(LoginData(req[p]))

\* C11: the integrity check of login accepts exactly the envelopes whose
\* mic is the digest of the transmitted fields (nonce, ciphertext, claimed
\* public key), and rejects every other envelope with an integrity fault.
C11_TagOverTransmittedFields ==
    \A p \in Procs :
        ReachedIntegrity(p) =>
            (result[p] = IntegrityFault
                <=> Prop(req[p], "mic") # WireMic(req[p]))

\* the nonce of invocation p was presented within the TTL window of an
\* invocation that went past the nonce check
Replayed(p) ==
    \E q \in Procs \ {p} :
        SameNonce(q, p) /\ PassedNonce(q) /\ Checked(p) /\ InWindowOf(q, p)

\* the stages of login after the nonce check, in order: whether the envelope
\* fails the stage, and the error of the stage
Stages(e) ==
    LET loginData == decryptAsymmetricData(e, ServerPriv)
        found == findById(Prop(loginData, "clientId"))
    IN  << << IsThrow(loginData),
              Throw("BadRequestException", "Data decryption fault") >>,
           << Prop(e, "mic") # LoginMic(Prop(e, "nonce"), loginData,
                                        Prop(e, "publicKey")),
              IntegrityFault >>,
           << validateSync(loginData) # {},
              Throw("BadRequestException", "validation") >>,
           << found = {},
              Throw("NotFoundException", "Client not found") >>,
           << \E client \in found :
                  client.password # secureHash(Prop(loginData, "password")),
              Throw("UnauthorizedException", "Invalid credentials") >>,
           << IsThrow(createPublicKey(Prop(e, "publicKey"))),
              createPublicKey(Prop(e, "publicKey")) >> >>

\* the stages among st that fail
Failing(st) == {i \in 1..Len(st) : st[i][1]}

\* the error of the earliest stage among st that fails
EarliestFault(st) ==
    LET failing == Failing(st)
    IN  IF failing = {} THEN None
        ELSE st[CHOOSE i \in failing : \A j \in failing : i <= j][2]

\* C13: login runs its stages in the order nonce check, decryption,
\* integrity check, validation, credential check, session creation, response
\* sealing. A login that ended returned the error of the earliest stage its
\* envelope fails, ReplayError coming first, and succeeded when it fails
\* none; for an envelope that failed the nonce check, decryption or the
\* integrity check no credential error is returned, no session is built or
\* stored and no response is sealed.
C13_StageOrder ==
    \A p \in Procs :
        Checked(p) =>
            LET st == Stages(req[p])
                fault == EarliestFault(st)
                replayed == Replayed(p)
            IN  /\ pc[p] = "done" =>
                      /\ replayed => result[p] = Replay
                      /\ (~replayed /\ fault # None) => result[p] = fault
                      /\ (~replayed /\ fault = None) => ~IsThrow(result[p])
                /\ (replayed \/ st[1][1] \/ st[2][1]) =>
                      /\ pc[p] = "done"
                      /\ pending[p] = {}
                      /\ \A i \in issued : i.by # p
                      /\ result[p] \in
                            {Replay, IntegrityFault,
                             Throw("BadRequestException", "Data decryption fault")}

\* a bad mic with an unknown clientId was answered with the integrity
\* fault, and an undecryptable envelope under the nonce so used with
\* ReplayError
C13_Witness ==
    \E p, q \in Procs :
        /\ req[p] = BadMicUnknownClient
        /\ result[p] = IntegrityFault
        /\ req[q] = Undecryptable
        /\ result[q] = Replay

\* login would accept the envelope, presented with a fresh nonce
Acceptable(g) ==
    EarliestFault(Stages(g)) = None

\* the envelope keeps the mic and the ciphertext of an envelope login would
\* accept, under another nonce or with another public key claimed
Rebound(e) ==
    \E g \in TagRequests :
        /\ Acceptable(g)
        /\ Prop(e, "mic") = Prop(g, "mic")
        /\ Prop(e, "data") = Prop(g, "data")
        /\ \/ Prop(e, "nonce") # Prop(g, "nonce")
           \/ Prop(e, "publicKey") # Prop(g, "publicKey")

\* the public key the response of invocation p was encrypted under
SealedTo(p) == Prop(result[p], "data")[2]

\* C17: the tag of login binds the nonce and the claimed public key. An
\* envelope that keeps the mic and ciphertext of an accepted envelope under
\* another nonce or public key fails the integrity check: no session is
\* built or stored for it, and a response is only ever sealed to the
\* public key that the tag login verified covers.
C17_TagBindsNonceAndKey ==
    \A p \in Procs :
        /\ (PassedNonce(p) /\ Rebound(req[p])) =>
              /\ pc[p] = "done"
              /\ result[p] = IntegrityFault
              /\ pending[p] = {}
              /\ \A i \in issued : i.by # p
        /\ Succeeded(p) =>
              \E pem \in {Prop(e, "publicKey") : e \in TagRequests} :
                  /\ SealedTo(p) = createPublicKey(pem)[2]
                  /\ Prop(req[p], "mic")
                        = LoginMic(Prop(req[p], "nonce"), LoginData(req[p]), pem)

\* a login was accepted; its mic and ciphertext, presented with another
\* public key claimed, were answered with the integrity fault
C17_Witness ==
    \E p, q \in Procs :
        /\ req[q] = GoodLogin(Lit("n1"))
        /\ Succeeded(q)
        /\ req[p] = OtherKey
        /\ result[p] = IntegrityFault

-----------------------------------------------------------------------------
(* Properties of the sessions *)

SweepCompletes == sweepPc = "deleteMany" /\ sweepPc' = "idle"

\* C9: a session built at time T expires at T + 10 minutes, is in the store
\* at every time up to T + 9 minutes once written, whatever sweeps ran, and
\* is gone when a sweep completes that was invoked after T + 10 minutes, the
\* session having been written in the minute it was built.
C9_SessionTTL ==
    [][\A i \in issued' :
          /\ fromISO(i.session.expire) = i.now + SessionTTL
          /\ (clock' <= i.now + (SessionTTL - 1)) => i.session \in sessions'
          /\ (SweepCompletes /\ ~i.late /\ sweepStart > i.now + SessionTTL)
                => i.session \notin sessions']_vars

\* a session written when built has been pruned after it expired
C9_Witness ==
    \E i \in issued :
        /\ ~i.late
        /\ i.session \notin sessions
        /\ clock > i.now + SessionTTL

\* checkSessions resumes with the documents read and filters them
SweepFilters == sweepPc = "filter" /\ sweepPc' = "deleteMany"

\* C14: a sweep deletes the sessions it read that expire before now, and
\* no session expiring at now or later, now being the time at which it
\* filters what it read; whatever logins run meanwhile, a session written
\* after the sweep read the store is not removed by that sweep.
\*   - at the filter, an id is put on the list to delete iff its session
\*     was read and expires before now;
\*   - at the delete, a session leaves the store iff its id is on the list:
\*     every session read that had expired when the sweep was invoked
\*     leaves, every session that leaves has expired, and every session
\*     written since the read stays.
C14_SweepDeletesExpiredOnly ==
    [][/\ SweepFilters =>
             /\ \A s \in sweepSeen :
                   s.id \in sweepDel' <=> fromISO(s.expire) < clock
             /\ sweepDel' \subseteq {s.id : s \in sweepSeen}
             /\ sessions' = sessions
       /\ SweepCompletes =>
             /\ sessions' \subseteq sessions
             /\ \A s \in sessions :
                   /\ s \notin sessions' <=> s.id \in sweepDel
                   /\ s \notin sessions' =>
                         (s \in sweepSeen /\ fromISO(s.expire) < clock)
                   /\ (s \in sweepSeen /\ fromISO(s.expire) < sweepStart)
                         => s \notin sessions'
                   /\ s \notin sweepSeen => s \in sessions'
       /\ (sweepPc = "deleteMany" /\ sweepPc' = "deleteMany") =>
             sweepDel' = sweepDel]_vars

\* a sweep has read the store and listed an expired session for deletion;
\* meanwhile a login has written a session, not expired, that the sweep did
\* not read
C14_Witness ==
    /\ sweepPc = "deleteMany"
    /\ sweepDel # {}
    /\ \E s \in sessions \ sweepSeen : fromISO(s.expire) >= clock

\* C15: every session in the store expires 10 minutes after the time at
\* which login created it, and no step (a login of the same or another
\* client, a sweep) changes the expire, sessionKey, client or publicKey of
\* a session that is in the store.
C15_SessionImmutable ==
    [][\A s \in sessions' :
          /\ \E i \in issued' :
                /\ i.session.id = s.id
                /\ fromISO(s.expire) = i.now + SessionTTL
          /\ \A t \in sessions :
                t.id = s.id =>
                    /\ s.expire = t.expire
                    /\ s.sessionKey = t.sessionKey
                    /\ s.client = t.client
                    /\ s.publicKey = t.publicKey]_vars

\* a session is in the store after a later login of the same client was
\* stored and after a sweep that deleted an older session
C15_Witness ==
    \E i, j \in issued :
        /\ i.now < j.now
        /\ i.session.client = j.session.client
        /\ j.session \in sessions
        /\ i.session \notin sessions
        /\ clock > j.now

\* C16: a session leaves the store only when a sweep deletes and only
\* after it has expired; a login removes and replaces nothing. So every
\* session a login stored is in the store as long as it has not expired,
\* the sessions of k logins side by side, and any two sessions in the store
\* differ in id and in session key.
C16_OnlyExpiryRemoves ==
    [][/\ \A s \in sessions :
             s \notin sessions' =>
                 (SweepCompletes /\ fromISO(s.expire) < clock)
       /\ ~SweepCompletes => sessions \subseteq sessions'
       /\ \A i \in issued' :
             clock' <= fromISO(i.session.expire) => i.session \in sessions'
       /\ \A s, t \in sessions' :
             s # t => (s.id # t.id /\ s.sessionKey # t.sessionKey)]_vars

\* two logins of one client have succeeded and their sessions are side by
\* side in the store
C16_Witness ==
    \E i, j \in issued :
        /\ i.by # j.by
        /\ Succeeded(i.by) /\ Succeeded(j.by)
        /\ i.session.client = j.session.client
        /\ i.session # j.session
        /\ {i.session, j.session} \subseteq sessions

-----------------------------------------------------------------------------
(* Properties of the protection library *)

Compromised == Throw("Error", "Failed to decipher: compromised data!")

\* an envelope sealed with op was opened with opener, unaltered
RoundTrip(op, opener) ==
    /\ codecPc = "opened"
    /\ codecEnv.kind = op
    /\ codecEnv.altered = ""
    /\ codecOut.op = opener

\* C6: unprotectAsymmetric(protectAsymmetric(d, pub), priv) is d for the
\* private key of pub, and a decryption error for another private key.
C6_AsymmetricRoundTrip ==
    (RoundTrip("protectAsymmetric", "unprotectAsymmetric")
            /\ Serializable(codecIn.d))
        => IF codecOut.key = PrivOf(codecIn.publicKey)
           THEN codecOut.out = codecIn.d
           ELSE codecOut.out = Throw("Error", "oaep decoding error")

\* C7: unprotect(protect(d, k), k) is d for every serializable d.
C7_SymmetricRoundTrip ==
    (RoundTrip("protect", "unprotect") /\ Serializable(codecIn.d)
            /\ codecOut.key = codecIn.secret)
        => codecOut.out = codecIn.d

C7_Witness ==
    /\ RoundTrip("protect", "unprotect")
    /\ codecOut.key = codecIn.secret
    /\ codecIn.d = Credentials("alice_id", "alice12345")
    /\ codecOut.out = codecIn.d

\* an envelope of protect had its ciphertext or nonce replaced
Tampered ==
    /\ codecPc \in {"sealed", "opened"}
    /\ codecEnv.kind = "protect"
    /\ codecEnv.altered # ""

\* C8: an envelope of protect whose ciphertext or nonce was replaced, the
\* mic kept, fails check, and unprotect throws without deciphering.
C8_TamperDetected ==
    Tampered =>
        /\ ~check(codecEnv.env)
        /\ (codecPc = "opened" /\ codecOut.op = "unprotect")
              => codecOut.out = Compromised

C8_Witness ==
    /\ Tampered
    /\ codecEnv.altered = "nonce"
    /\ codecPc = "opened"
    /\ codecOut.op = "unprotect"
    /\ codecOut.key = codecIn.secret

\* C12: an open fails closed. For every envelope whose mic is not the tag
\* recomputed over its fields, unprotect and unprotectAsymmetric throw the
\* integrity error; they return neither a plaintext nor the error of a
\* decryption, which was not attempted.
C12_FailClosed ==
    (codecPc = "opened" /\ ~check(codecEnv.env))
        => codecOut.out = Compromised

\* the ciphertext was replaced by one that deciphers under the key the
\* envelope was opened with, and unprotect threw
C12_Witness ==
    /\ codecPc = "opened"
    /\ codecOut.op = "unprotect"
    /\ codecEnv.altered = "data"
    /\ ~IsThrow(decipherData(codecEnv.env, codecOut.key))
    /\ codecOut.out = Compromised

=============================================================================
